---------------------------- MODULE Spec2Model ----------------------------
(***************************************************************************)
(* Model of backend/alpykhari/parser/base.py: the batch that normalises    *)
(* hadith records and splits each record's text into chain and body.       *)
(*                                                                         *)
(* A text is a sequence of characters; a character is a one-symbol string. *)
(* Arabic letters are written in Buckwalter transliteration                *)
(* (A b t v H x d r s E g f q k l m n h w y Y > S D), so that the regular  *)
(* expressions of the source act on characters exactly as they do in the   *)
(* program.                                                                *)
(***************************************************************************)
EXTENDS Integers, Sequences, FiniteSets, TLC

(***************************************************************************)
(* Character classes                                                       *)
(***************************************************************************)
SP == " "
NL == "nl"
DQ == "dq"
TILDE == "~"
WAW == "w"

\* the characters \s, str.split() and str.strip() treat as whitespace
Whitespace == {SP, NL, "tab"}

\* the class of line 67: colon, double and single quote, Arabic comma, Arabic
\* full stop, tatweel, hyphen, period, comma
PunctClass == {":", DQ, "'", "comma_ar", "stop_ar", "tatweel", "-", ".", ","}

\* arabic_diacritics: U+0610-061A, U+064B-065F, U+0670, U+06D6-06ED (fatha, damma,
\* kasra, sukun, shadda, the tanwins, dagger alif)
arabic_diacritics == {"a", "u", "i", "o", "^", "F", "N", "K", "dagger"}

\* the characters \w matches that the model uses: the Arabic letters
Letters ==
  {"A", "b", "t", "v", "H", "x", "d", "r", "s", "E", "g", "f", "q", "k",
   "l", "m", "n", "h", "w", "y", "Y", ">", "S", "D"}

IsSpace(c) == c \in Whitespace
IsWord(c) == c \in Letters

(***************************************************************************)
(* String primitives of the Python runtime                                 *)
(***************************************************************************)
\* whether the literal p occurs in s starting at position i
MatchAt(s, i, p) ==
  /\ i >= 1
  /\ i + Len(p) - 1 <= Len(s)
  /\ \A k \in 1..Len(p) : s[i + k - 1] = p[k]

\* re.search of a literal
Contains(s, p) == \E i \in 1..(Len(s) + 1) : MatchAt(s, i, p)

\* index of the first alternative (in regex order) that matches at i, or 0
FirstAlt(s, i, alts) ==
  IF \E k \in 1..Len(alts) : MatchAt(s, i, alts[k])
  THEN CHOOSE k \in 1..Len(alts) :
         /\ MatchAt(s, i, alts[k])
         /\ \A j \in 1..(k - 1) : ~MatchAt(s, i, alts[j])
  ELSE 0

\* re.sub(alt1|alt2|..., '', s) and s.replace(p, ''): leftmost,
\* non-overlapping, one pass
RECURSIVE ReSubAlts(_, _, _)
ReSubAlts(s, alts, i) ==
  IF i > Len(s) THEN <<>>
  ELSE LET m == FirstAlt(s, i, alts)
       IN IF m # 0 THEN ReSubAlts(s, alts, i + Len(alts[m]))
          ELSE <<s[i]>> \o ReSubAlts(s, alts, i + 1)

\* re.sub(r'[class]', '', s)
ReSubClass(s, class) == SelectSeq(s, LAMBDA c : c \notin class)

\* str.strip() with no argument
RECURSIVE LStrip(_)
LStrip(s) == IF s # <<>> /\ IsSpace(Head(s)) THEN LStrip(Tail(s)) ELSE s
RECURSIVE RStrip(_)
RStrip(s) ==
  IF s # <<>> /\ IsSpace(s[Len(s)]) THEN RStrip(SubSeq(s, 1, Len(s) - 1)) ELSE s
Strip(s) == RStrip(LStrip(s))

\* re.sub(r'\s+', ' ', s)
RECURSIVE ReSubSpaces(_, _)
ReSubSpaces(s, i) ==
  IF i > Len(s) THEN <<>>
  ELSE IF IsSpace(s[i])
       THEN IF i > 1 /\ IsSpace(s[i - 1]) THEN ReSubSpaces(s, i + 1)
            ELSE <<SP>> \o ReSubSpaces(s, i + 1)
       ELSE <<s[i]>> \o ReSubSpaces(s, i + 1)

CollapseStrip(s) == Strip(ReSubSpaces(s, 1))

\* str.split(): the maximal runs of non-whitespace characters
RECURSIVE SplitWs(_, _, _)
SplitWs(s, i, cur) ==
  IF i > Len(s) THEN (IF cur = <<>> THEN <<>> ELSE <<cur>>)
  ELSE IF IsSpace(s[i])
       THEN (IF cur = <<>> THEN <<>> ELSE <<cur>>) \o SplitWs(s, i + 1, <<>>)
       ELSE SplitWs(s, i + 1, Append(cur, s[i]))
Split(s) == SplitWs(s, 1, <<>>)

\* str.split(c) on one character: every piece, the empty ones included
RECURSIVE SplitOnChar(_, _, _, _)
SplitOnChar(s, c, i, cur) ==
  IF i > Len(s) THEN <<cur>>
  ELSE IF s[i] = c THEN <<cur>> \o SplitOnChar(s, c, i + 1, <<>>)
       ELSE SplitOnChar(s, c, i + 1, Append(cur, s[i]))
SplitOn(s, c) == SplitOnChar(s, c, 1, <<>>)

\* sep.join(parts)
RECURSIVE Join(_, _)
Join(parts, sep) ==
  IF parts = <<>> THEN <<>>
  ELSE IF Len(parts) = 1 THEN parts[1]
       ELSE parts[1] \o sep \o Join(Tail(parts), sep)

\* s.replace(c, d) for single characters
ReplaceChar(s, c, d) == [k \in 1..Len(s) |-> IF s[k] = c THEN d ELSE s[k]]

word_count(s) == Len(Split(s))

remove_diacritics(text) == ReSubClass(text, arabic_diacritics)


(***************************************************************************)
(* Literals of the source                                                  *)
(***************************************************************************)
\* None, as row_dict.get() returns it for a NULL column
None == <<"None">>

\* v or ''
OrEmpty(v) == IF v = None THEN <<>> ELSE v

\* the alternatives of line 69, in the order the regex tries them
honorifics ==
  << <<"r","D","Y",SP,"A","l","l","h",SP,"E","n","h","A">>,
     <<"r","D","Y",SP,"A","l","l","h",SP,"E","n","h","m","A">>,
     <<"r","D","Y",SP,"A","l","l","h",SP,"E","n","h","m">>,
     <<"r","D","Y",SP,"A","l","l","h",SP,"E","n","h">> >>

\* the literal of line 71
benediction ==
  <<"S","l","Y",SP,"A","l","l","h",SP,"E","l","y","h",SP,"w","s","l","m">>

\* lines 83-91, in list order (the order of the regex alternation)
chain_keywords ==
  << <<"H","d","v","n","A">>, <<"H","d","v","n","y">>,
     <<"H","d","v","n","A","h">>, <<"H","d","v","h">>, <<"v","n","A">>,
     <<">","x","b","r","n","A">>, <<">","x","b","r","n","A","h">>,
     <<">","x","b","r","n","y">>, <<">","x","b","r","h">>,
     <<"s","m","E","t">>, <<"s","m","E","n","A">>,
     <<"s","m","E","n","A","h">>, <<"s","m","E">>,
     <<"E","n">>, <<"E","n","h">>, <<"E","n","h","A">>,
     <<"y","b","l","g",SP,"b","h">>,
     <<">","n","h">>, <<">","n">>, <<">","n","h","A">>,
     <<"q","A","l">>, <<"q","A","l","t">> >>

\* r'(nby|rswl)' of line 109
prophet_words == << <<"n","b","y">>, <<"r","s","w","l">> >>

\* r' (bn|Abn) ' of line 113
ibn_words == << <<SP,"b","n",SP>>, <<SP,"A","b","n",SP>> >>

(***************************************************************************)
(* English text normalization, lines 54-62                                 *)
(***************************************************************************)
\* str.strip('"'): every leading and every trailing quote
RECURSIVE StripQuotes(_)
StripQuotes(s) ==
  IF s # <<>> /\ Head(s) = DQ THEN StripQuotes(Tail(s))
  ELSE IF s # <<>> /\ s[Len(s)] = DQ THEN StripQuotes(SubSeq(s, 1, Len(s) - 1))
       ELSE s

\* re.sub(r'"{2,}', '"', s)
RECURSIVE CollapseQuotes(_, _)
CollapseQuotes(s, i) ==
  IF i > Len(s) THEN <<>>
  ELSE IF s[i] = DQ /\ i > 1 /\ s[i - 1] = DQ THEN CollapseQuotes(s, i + 1)
       ELSE <<s[i]>> \o CollapseQuotes(s, i + 1)

NormalizeEn(raw) ==
  LET t0 == OrEmpty(raw)
      t1 == IF t0 # <<>> /\ Head(t0) = DQ THEN StripQuotes(t0) ELSE t0
  IN CollapseQuotes(t1, 1)

(***************************************************************************)
(* Arabic text normalization, lines 65-74                                  *)
(***************************************************************************)
NormalizeAr(raw) ==
  LET t0 == OrEmpty(raw)
  IN IF t0 = <<>> THEN t0
     ELSE LET t1 == ReSubClass(t0, PunctClass)
              t2 == ReSubAlts(t1, honorifics, 1)
              t3 == ReSubAlts(t2, <<benediction>>, 1)
          IN CollapseStrip(t3)

(***************************************************************************)
(* Marking the narration keywords, lines 78-95                             *)
(***************************************************************************)
\* \b at the position before s[i]
WordBoundary(s, i) ==
  LET before == i > 1 /\ i - 1 <= Len(s) /\ IsWord(s[i - 1])
      after == i >= 1 /\ i <= Len(s) /\ IsWord(s[i])
  IN before # after

\* index of the first keyword that matches at i and ends on a \b, or 0
KeywordAt(s, i) ==
  LET ok(k) == /\ MatchAt(s, i, chain_keywords[k])
               /\ WordBoundary(s, i + Len(chain_keywords[k]))
  IN IF \E k \in 1..Len(chain_keywords) : ok(k)
     THEN CHOOSE k \in 1..Len(chain_keywords) :
            ok(k) /\ \A j \in 1..(k - 1) : ~ok(j)
     ELSE 0

\* the match of r'\bw?(kw1|kw2|...)\b' that starts at i: <<width, keyword>>,
\* or <<0, 0>> when there is none
PatternAt(s, i) ==
  IF ~WordBoundary(s, i) THEN <<0, 0>>
  ELSE IF i <= Len(s) /\ s[i] = WAW /\ KeywordAt(s, i + 1) # 0
       THEN <<1 + Len(chain_keywords[KeywordAt(s, i + 1)]), KeywordAt(s, i + 1)>>
       ELSE IF KeywordAt(s, i) # 0
            THEN <<Len(chain_keywords[KeywordAt(s, i)]), KeywordAt(s, i)>>
            ELSE <<0, 0>>

\* pattern.sub('~ \\1', s)
RECURSIVE PatternSub(_, _)
PatternSub(s, i) ==
  IF i > Len(s) THEN <<>>
  ELSE LET m == PatternAt(s, i)
       IN IF m[1] # 0
          THEN <<TILDE, SP>> \o chain_keywords[m[2]] \o PatternSub(s, i + m[1])
          ELSE <<s[i]>> \o PatternSub(s, i + 1)

Mark(text) == CollapseStrip(PatternSub(remove_diacritics(text), 1))

(***************************************************************************)
(* Finding the start of the body, lines 99-121                             *)
(***************************************************************************)
\* [s.strip() for s in text_marked.split('~') if s.strip()]
RECURSIVE StripNonEmpty(_)
StripNonEmpty(parts) ==
  IF parts = <<>> THEN <<>>
  ELSE IF Strip(Head(parts)) = <<>> THEN StripNonEmpty(Tail(parts))
       ELSE <<Strip(Head(parts))>> \o StripNonEmpty(Tail(parts))

ChainDelims(text_marked) == StripNonEmpty(SplitOn(text_marked, TILDE))

\* Heuristic 1, line 109
H1(delim) == \E k \in 1..Len(prophet_words) : Contains(delim, prophet_words[k])

\* the word-count threshold of line 113
LongSegment == 7

HasIbn(delim) == \E k \in 1..Len(ibn_words) : Contains(delim, ibn_words[k])

\* H2 with the threshold off by one: 7 words are enough
H2_SevenWords(delim) == word_count(delim) >= LongSegment /\ ~HasIbn(delim)

\* Heuristic 2, line 113
H2(delim) == word_count(delim) > LongSegment /\ ~HasIbn(delim)

\* the for loop of lines 107-115, from index j (1-based): the index at which
\* the loop breaks and the branch that breaks it, <<0, "none">> when the
\* loop runs out
RECURSIVE ScanFrom(_, _)
ScanFrom(chain_delims, j) ==
  IF j > Len(chain_delims) THEN <<0, "none">>
  ELSE IF H1(chain_delims[j]) THEN <<j, "H1">>
       ELSE IF H2(chain_delims[j]) THEN <<j, "H2">>
            ELSE ScanFrom(chain_delims, j + 1)

\* '~'.join(chain_delims[j:]) of lines 110 and 114
JoinFrom(chain_delims, j) ==
  Join(SubSeq(chain_delims, j, Len(chain_delims)), <<TILDE>>)

\* lines 99-121, given the outcome of the loop
BodyMarked(chain_delims, hit) ==
  LET scanned == IF hit[1] # 0 THEN JoinFrom(chain_delims, hit[1]) ELSE <<>>
      found == IF chain_delims # <<>> /\ scanned = <<>>
               THEN chain_delims[Len(chain_delims)]
               ELSE scanned
  IN Strip(ReplaceChar(found, TILDE, SP))

(***************************************************************************)
(* Applying the split to the original text, lines 124-135                  *)
(***************************************************************************)
\* the split with the body taken from the analysis copy
Realign_FromMarked(text, body_marked) ==
  LET text_toks == Split(text)
      body_marked_toks == Split(body_marked)
  IN IF text_toks = <<>> \/ body_marked_toks = <<>>
        \/ Len(text_toks) <= Len(body_marked_toks)
     THEN [chain |-> <<>>, body |-> body_marked]
     ELSE LET diff == Len(text_toks) - Len(body_marked_toks)
          IN [chain |-> Strip(Join(SubSeq(text_toks, 1, diff), <<SP>>)),
              body |-> Strip(Join(body_marked_toks, <<SP>>))]

Realign(text, body_marked) ==
  LET text_toks == Split(text)
      body_marked_toks == Split(body_marked)
  IN IF text_toks = <<>> \/ body_marked_toks = <<>>
        \/ Len(text_toks) <= Len(body_marked_toks)
     THEN [chain |-> <<>>, body |-> text]
     ELSE LET diff == Len(text_toks) - Len(body_marked_toks)
          IN [chain |-> Strip(Join(SubSeq(text_toks, 1, diff), <<SP>>)),
              body |-> Strip(Join(SubSeq(text_toks, diff + 1, Len(text_toks)),
                                  <<SP>>))]


(***************************************************************************)
(* The batch: main(), lines 17-150                                         *)
(***************************************************************************)
VARIABLES
  file_db,    \* data/hadiths.db: whether the file exists, and its table hadiths
  mem_db,     \* the table hadiths of dest_con, the ":memory:" database
  rows,       \* the rows fetched at line 47
  i,          \* how many rows the for loop of line 49 has finished
  row_dict,   \* row_dict of the row in hand
  locals,     \* text_marked, chain_delims, the loop outcome, body_marked
  pc          \* where main() is

vars == <<file_db, mem_db, rows, i, row_dict, locals, pc>>

\* the database file: absent, or holding the given table
NoFile == [exists |-> FALSE, hadiths |-> <<>>]
File(table) == [exists |-> TRUE, hadiths |-> table]

\* LIMIT 10 of line 46
Limit == 10

\* a row of the table as it is before any run
Row(bookId, num, text, text_en, chain_en) ==
  [bookId |-> bookId, num |-> num, text |-> text, text_en |-> text_en,
   chain_en |-> chain_en, chain |-> None, body |-> None, body_en |-> None]

NoRow == Row(0, 0, None, None, None)
NoLocals ==
  [text_marked |-> <<>>, chain_delims |-> <<>>, hit |-> <<0, "none">>,
   body_marked |-> <<>>]

\* lines 24-26: the database file is missing
MissingDb ==
  /\ pc = "start"
  /\ ~file_db.exists
  /\ pc' = "exit"
  /\ UNCHANGED <<file_db, mem_db, rows, i, row_dict, locals>>

\* lines 28-47: copy the file into memory and fetch the batch from the copy
Open ==
  /\ pc = "start"
  /\ file_db.exists
  /\ mem_db' = file_db.hadiths
  /\ rows' = SubSeq(file_db.hadiths, 1,
                    IF Len(file_db.hadiths) < Limit THEN Len(file_db.hadiths)
                    ELSE Limit)
  /\ i' = 0
  /\ pc' = "loop"
  /\ UNCHANGED <<file_db, row_dict, locals>>

\* lines 76-121 on the normalized text
Analyse(text) ==
  LET text_marked == Mark(text)
      chain_delims == ChainDelims(text_marked)
      hit == IF chain_delims # <<>> THEN ScanFrom(chain_delims, 1) ELSE <<0, "none">>
  IN [text_marked |-> text_marked, chain_delims |-> chain_delims, hit |-> hit,
      body_marked |-> BodyMarked(chain_delims, hit)]

\* lines 51-135: row_dict after the normalizations and the split
Processed(row, loc) ==
  LET text_en == NormalizeEn(row.text_en)
      text == NormalizeAr(row.text)
      split == Realign(text, loc.body_marked)
  IN [row EXCEPT !.text_en = text_en, !.body_en = text_en, !.text = text,
                 !.chain = split.chain, !.body = split.body]

\* lines 49-144: one pass of the loop body up to the breakpoint of line 145
ProcessRow ==
  /\ pc = "loop"
  /\ i < Len(rows)
  /\ LET loc == Analyse(NormalizeAr(rows[i + 1].text))
     IN /\ locals' = loc
        /\ row_dict' = Processed(rows[i + 1], loc)
  /\ pc' = "break"
  /\ UNCHANGED <<file_db, mem_db, rows, i>>

\* the UPDATE without its chain_en condition
Update_AnyChainEn(table, d) ==
  [k \in 1..Len(table) |->
     IF table[k].bookId = d.bookId /\ table[k].num = d.num
     THEN [table[k] EXCEPT !.body_en = d.body_en, !.text_en = d.text_en,
                           !.text = d.text, !.chain = d.chain, !.body = d.body]
     ELSE table[k]]

\* the UPDATE of lines 38-41 with the parameters of lines 138-142
Update(table, d) ==
  [k \in 1..Len(table) |->
     IF /\ table[k].bookId = d.bookId
        /\ table[k].num = d.num
        /\ table[k].chain_en # None
     THEN [table[k] EXCEPT !.body_en = d.body_en, !.text_en = d.text_en,
                           !.text = d.text, !.chain = d.chain, !.body = d.body]
     ELSE table[k]]

\* lines 146-147: the debugger is told to continue
Continue ==
  /\ pc = "break"
  /\ mem_db' = Update(mem_db, row_dict)
  /\ i' = i + 1
  /\ pc' = "loop"
  /\ UNCHANGED <<file_db, rows, row_dict, locals>>

\* line 145: ipdb cannot be imported, or the debugger is told to quit
Quit ==
  /\ pc = "break"
  /\ pc' = "aborted"
  /\ UNCHANGED <<file_db, mem_db, rows, i, row_dict, locals>>

\* line 150: the loop is over; commit to the in-memory database
Commit ==
  /\ pc = "loop"
  /\ i = Len(rows)
  /\ pc' = "done"
  /\ UNCHANGED <<file_db, mem_db, rows, i, row_dict, locals>>

Next == MissingDb \/ Open \/ ProcessRow \/ Continue \/ Quit \/ Commit

\* the state at entry to main(), for a given database file
InitWith(db) ==
  /\ file_db = db
  /\ mem_db = <<>>
  /\ rows = <<>>
  /\ i = 0
  /\ row_dict = NoRow
  /\ locals = NoLocals
  /\ pc = "start"


(***************************************************************************)
(* Input texts: every concatenation of at most n pieces                    *)
(***************************************************************************)
RECURSIVE Flatten(_)
Flatten(ps) == IF ps = <<>> THEN <<>> ELSE Head(ps) \o Flatten(Tail(ps))

TextsOf(pieces, n) ==
  { Flatten(ps) : ps \in UNION { [1..m -> pieces] : m \in 0..n } }

MaxPieces == 4
MaxNormPieces == 4
MaxEnPieces == 5
MaxRows == 2

\* seven one-letter words
SevenWords == <<"k",SP,"k",SP,"k",SP,"k",SP,"k",SP,"k",SP,"k",SP>>

\* narration texts: a vocalised keyword (qaAla), a keyword with the
\* conjunction attached (wEn), a name, the patronymic, the prophet, seven
\* plain words, and a diacritic standing alone as a word
SplitPieces ==
  { <<"q","a","A","l","a",SP>>, <<"w","E","n",SP>>, <<"f",SP>>,
    <<"b","n",SP>>, <<"A","l","n","b","y",SP>>, SevenWords, <<"a",SP>> }

SplitTexts ==
  TextsOf(SplitPieces, MaxPieces) \cup {None, <<SP>>, <<NL, SP, "tab">>}

\* texts for the normalizer: the two halves of an honorific, the
\* benediction, a name, a second blank and a full stop
NormPieces ==
  { <<"r","D","Y",SP,"A","l","l","h",SP>>, <<"E","n","h",SP>>, benediction,
    <<"f",SP>>, <<NL>>, <<".">> }

NormTexts == TextsOf(NormPieces, MaxNormPieces) \cup {None}

\* English texts: quotes and letters
EnPieces == { <<DQ>>, <<"a">>, <<SP>> }

EnTexts == TextsOf(EnPieces, MaxEnPieces) \cup {None}

present == <<"x">>

\* one record whose Arabic text is a narration text
InitSplit ==
  \E db \in {NoFile} \cup { File(<<Row(1, 1, t, None, present)>>) : t \in SplitTexts } :
    InitWith(db)

\* one record whose Arabic text exercises the normalizer
InitNorm ==
  \E db \in {NoFile} \cup { File(<<Row(1, 1, t, None, present)>>) : t \in NormTexts } :
    InitWith(db)

\* one record whose English text exercises the English normalizer
InitEn ==
  \E db \in {NoFile} \cup { File(<<Row(1, 1, None, t, present)>>) : t \in EnTexts } :
    InitWith(db)

\* a table of up to MaxRows records with distinct (bookId, num), some of
\* them with a NULL chain_en
StoreTexts == { <<"f",SP,"q","A","l",SP,"k">>, <<"E","n",SP,"f",".">> }
StoreRows(n) ==
  { [k \in 1..n |-> Row(1, k, f[k][1], <<DQ, "a", DQ>>, f[k][2])] :
      f \in [1..n -> StoreTexts \X {None, present}] }
InitStore ==
  \E db \in {NoFile} \cup { File(t) : t \in UNION { StoreRows(n) : n \in 1..MaxRows } } :
    InitWith(db)

SpecSplit == InitSplit /\ [][Next]_vars
SpecNorm == InitNorm /\ [][Next]_vars
SpecEn == InitEn /\ [][Next]_vars
SpecStore == InitStore /\ [][Next]_vars
Spec == SpecStore


(***************************************************************************)
(* Properties                                                              *)
(***************************************************************************)
\* row_dict and locals hold the results for a row
RowInHand == pc \in {"break", "aborted"} \/ i >= 1

\* the row as it was fetched
RawRow == IF pc \in {"break", "aborted"} THEN rows[i + 1] ELSE rows[i]

\* the words of a run of segments, in order
WordsOf(segs) == Split(Join(segs, <<SP>>))

\* a stretch of the stored text next to words of the analysis copy: the same
\* words once the diacritics are off, a conjunction attached to a keyword
\* aside
SameWords(stored, marked) ==
  LET w == Split(remove_diacritics(stored))
  IN /\ Len(w) = Len(marked)
     /\ \A k \in 1..Len(w) : w[k] \in {marked[k], <<WAW>> \o marked[k]}

\* the segment mentions the prophet or the messenger
MentionsProphet(seg) ==
  \E p \in 1..Len(seg) :
    \/ p + 2 <= Len(seg) /\ SubSeq(seg, p, p + 2) = <<"n","b","y">>
    \/ p + 3 <= Len(seg) /\ SubSeq(seg, p, p + 3) = <<"r","s","w","l">>

\* bn or Abn with a blank on either side
IbnBetweenBlanks(seg) ==
  \E p \in 1..Len(seg) :
    /\ seg[p] = SP
    /\ \/ p + 3 <= Len(seg) /\ SubSeq(seg, p + 1, p + 3) = <<"b","n",SP>>
       \/ p + 4 <= Len(seg) /\ SubSeq(seg, p + 1, p + 4) = <<"A","b","n",SP>>

\* bn or Abn as a word of the segment, wherever it stands
IbnWord(seg) ==
  \E k \in 1..Len(Split(seg)) : Split(seg)[k] \in {<<"b","n">>, <<"A","b","n">>}

\* H1 or H2 as section 4.3 states them
Matches(seg) ==
  MentionsProphet(seg) \/ (Len(Split(seg)) >= 8 /\ ~IbnBetweenBlanks(seg))

\* the lowest index of a matching segment, 0 when there is none
FirstMatch(segs) ==
  IF \E j \in 1..Len(segs) : Matches(segs[j])
  THEN CHOOSE j \in 1..Len(segs) :
         Matches(segs[j]) /\ \A k \in 1..(j - 1) : ~Matches(segs[k])
  ELSE 0

\* C1: once a row is processed, chain and body joined by one space and
\* trimmed give back the normalized text, word for word (and character for
\* character), in the degenerate branch and in the prefix cut alike.
C1_Reconstruction ==
  RowInHand =>
    LET joined == Strip(row_dict.chain \o <<SP>> \o row_dict.body)
    IN /\ Split(joined) = Split(row_dict.text)
       /\ joined = row_dict.text

\* a row cut at the second segment or later: chain and body both non-empty,
\* the body vocalised
C1_Witness ==
  /\ RowInHand
  /\ locals.hit[1] >= 2
  /\ row_dict.chain # <<>>
  /\ row_dict.body # <<>>
  /\ row_dict.body # remove_diacritics(row_dict.body)

\* C2: when the scan stops on a prophet mention at segment j, after a chain
\* of segments that match neither heuristic, the chain is exactly the words
\* of the segments before j and the body the words of segment j and the
\* later ones.
C2_ProphetSplit ==
  (RowInHand /\ locals.hit[2] = "H1" /\ locals.hit[1] >= 2) =>
    LET d == locals.chain_delims
        j == locals.hit[1]
    IN /\ SameWords(row_dict.chain, WordsOf(SubSeq(d, 1, j - 1)))
       /\ SameWords(row_dict.body, WordsOf(SubSeq(d, j, Len(d))))

\* C3: a segment of 8 or more words that has bn or Abn as one of its
\* words, the first and the last included, never triggers H2.
C3_PatronymicSuppression ==
  RowInHand =>
    \A j \in 1..Len(locals.chain_delims) :
      (Len(Split(locals.chain_delims[j])) >= 8 /\ IbnWord(locals.chain_delims[j]))
        => locals.hit # <<j, "H2">>

\* C4: normalizing the normalized text changes nothing.
C4_Idempotent == RowInHand => NormalizeAr(row_dict.text) = row_dict.text

\* C5: a text that contains the honorific rDY Allh Enh is stored without
\* it, with single blanks only and none at either end.
C5_HonorificRemoved ==
  (RowInHand /\ Contains(OrEmpty(RawRow.text), honorifics[4])) =>
    /\ ~Contains(row_dict.text, honorifics[4])
    /\ \A p \in 1..Len(row_dict.text) :
         IsSpace(row_dict.text[p]) =>
           /\ row_dict.text[p] = SP
           /\ p > 1 /\ p < Len(row_dict.text)
           /\ ~IsSpace(row_dict.text[p + 1])

\* no word of the text is a chain keyword, alone or after the conjunction
NoChainKeyword(text) ==
  LET w == Split(remove_diacritics(text))
  IN \A k \in 1..Len(w) : \A n \in 1..Len(chain_keywords) :
       /\ w[k] # chain_keywords[n]
       /\ w[k] # <<WAW>> \o chain_keywords[n]
       /\ ~(k < Len(w) /\ w[k] \o <<SP>> \o w[k + 1] = chain_keywords[n])

\* C6: a text of at most 7 words with no chain keyword (the empty, the NULL
\* and the blank text included) comes out with an empty chain and the whole
\* normalized text as body.
C6_NoChain ==
  (RowInHand /\ Len(Split(row_dict.text)) <= 7 /\ NoChainKeyword(row_dict.text)) =>
    /\ row_dict.chain = <<>>
    /\ row_dict.body = row_dict.text

C8_Fallback ==
  (RowInHand /\ locals.chain_delims # <<>> /\ locals.hit[1] = 0) =>
    LET d == locals.chain_delims
    IN IF Len(d) >= 2
       THEN /\ SameWords(row_dict.body, WordsOf(<<d[Len(d)]>>))
            /\ SameWords(row_dict.chain, WordsOf(SubSeq(d, 1, Len(d) - 1)))
       ELSE /\ row_dict.chain = <<>>
            /\ row_dict.body = row_dict.text

\* one leading and one trailing quote off, when the text starts with a quote
StripOnePair(s) ==
  IF s # <<>> /\ Head(s) = DQ
  THEN LET t == Tail(s)
       IN IF t # <<>> /\ t[Len(t)] = DQ THEN SubSeq(t, 1, Len(t) - 1) ELSE t
  ELSE s

\* no two quotes side by side
NoQuoteRun(s) == \A p \in 1..(Len(s) - 1) : ~(s[p] = DQ /\ s[p + 1] = DQ)

\* C9: text_en is the raw English text with a single pair of enclosing
\* quotes stripped and every run of quotes collapsed to one; body_en is the
\* same value.
C9_EnglishNormalizer ==
  RowInHand =>
    /\ row_dict.text_en = CollapseQuotes(StripOnePair(OrEmpty(RawRow.text_en)), 1)
    /\ row_dict.body_en = row_dict.text_en

\* what the run computes for a fetched row
Computed(row) == Processed(row, Analyse(NormalizeAr(row.text)))

\* the five output fields of two rows agree
SameOutputs(a, b) ==
  /\ a.text = b.text /\ a.text_en = b.text_en /\ a.body_en = b.body_en
  /\ a.chain = b.chain /\ a.body = b.body

=============================================================================
